---- MODULE Spec2Model ----
(***************************************************************************)
(* Model of the Tigo CCA client (custom_components/tigo/tigo_cca.py):      *)
(* the HTML table parser, the four page interpreters and the TigoCCA       *)
(* client with its operations read_config, get_status, turn_modules_off    *)
(* and turn_modules_on.                                                    *)
(*                                                                         *)
(* Texts are sequences of one-character strings, so that strip(),          *)
(* substring tests ("hrs" in age) and float()/int() are computed, not      *)
(* looked up.  Python's None is the one-element sequence <<"None">>, which *)
(* no text can equal because "None" is not a single character.             *)
(***************************************************************************)
EXTENDS Integers, Sequences, FiniteSets, TLC

\* ------------------------------------------------------------------------
\* Bounds

\* Largest number of rows of a version page (/cgi-bin/meshnodever).
MaxVerRows == 2
\* Largest number of rows of an identity page (/cgi-bin/meshnodeinfo).
MaxInfoRows == 2
\* Largest number of rows of a live-status page (/cgi-bin/meshdatapower).
MaxLiveRows == 2
MaxDepth == 2      \* <table> elements open at once in a document fed event by event
MaxCells == 2      \* <td> cells counted in a row of such a document

\* ------------------------------------------------------------------------
\* Python values

None == <<"None">>
NoErr == "none"

\* float values are kept in hundredths, ints as they are
PyFloat(n) == <<"float", n>>
PyInt(n) == <<"int", n>>

IsSpace(c) == c \in {" ", "\n", "\t"}
IsDigit(c) == c \in {"0", "1", "2", "3", "4", "5", "6", "7", "8", "9"}
IsHexDigit(c) == IsDigit(c) \/ c \in {"a", "b", "c", "d", "e", "f"}

DigitVal(c) ==
  CASE c = "0" -> 0 [] c = "1" -> 1 [] c = "2" -> 2 [] c = "3" -> 3
    [] c = "4" -> 4 [] c = "5" -> 5 [] c = "6" -> 6 [] c = "7" -> 7
    [] c = "8" -> 8 [] c = "9" -> 9 [] c = "a" -> 10 [] c = "b" -> 11
    [] c = "c" -> 12 [] c = "d" -> 13 [] c = "e" -> 14 [] c = "f" -> 15

\* str.strip(): leading and trailing whitespace removed
RECURSIVE LStrip(_)
LStrip(s) == IF s # <<>> /\ IsSpace(Head(s)) THEN LStrip(Tail(s)) ELSE s

RECURSIVE RStrip(_)
RStrip(s) ==
  IF s # <<>> /\ IsSpace(s[Len(s)]) THEN RStrip(SubSeq(s, 1, Len(s) - 1)) ELSE s

Strip(s) == RStrip(LStrip(s))

\* the Python test  sub in s
Contains(s, sub) ==
  \E i \in 1..(Len(s) - Len(sub) + 1) : SubSeq(s, i, i + Len(sub) - 1) = sub

\* the value of a run of digits in the given base
RECURSIVE DigitsVal(_, _, _)
DigitsVal(s, base, acc) ==
  IF s = <<>> THEN acc ELSE DigitsVal(Tail(s), base, acc * base + DigitVal(Head(s)))

IndexOfDot(s) ==
  IF \E i \in 1..Len(s) : s[i] = "."
  THEN CHOOSE i \in 1..Len(s) : s[i] = "." /\ \A j \in 1..(i - 1) : s[j] # "."
  ELSE 0

Unsigned(s) == IF s # <<>> /\ Head(s) \in {"-", "+"} THEN Tail(s) ELSE s
Sign(s) == IF s # <<>> /\ Head(s) = "-" THEN -1 ELSE 1

\* float(text): optional sign, digits with at most one point, at least one
\* digit; the result in hundredths, or "ValueError".
ParseFloat(text) ==
  LET s == Unsigned(Strip(text))
      d == IndexOfDot(s)
      ip == IF d = 0 THEN s ELSE SubSeq(s, 1, d - 1)
      fp == IF d = 0 THEN <<>> ELSE SubSeq(s, d + 1, Len(s))
      f2 == SubSeq(fp \o <<"0", "0">>, 1, 2)
      ok == /\ Len(ip) + Len(fp) > 0
            /\ \A i \in 1..Len(ip) : IsDigit(ip[i])
            /\ \A i \in 1..Len(fp) : IsDigit(fp[i])
  IN IF ok
     THEN [err |-> NoErr,
           val |-> PyFloat(Sign(Strip(text)) * (DigitsVal(ip, 10, 0) * 100 + DigitsVal(f2, 10, 0)))]
     ELSE [err |-> "ValueError", val |-> None]

\* int(text, base): optional sign and at least one digit of the base
ParseInt(text, base) ==
  LET s == Unsigned(Strip(text))
      ok == /\ Len(s) > 0
            /\ \A i \in 1..Len(s) : IF base = 16 THEN IsHexDigit(s[i]) ELSE IsDigit(s[i])
  IN IF ok
     THEN [err |-> NoErr, val |-> PyInt(Sign(Strip(text)) * DigitsVal(s, base, 0))]
     ELSE [err |-> "ValueError", val |-> None]

\* ------------------------------------------------------------------------
\* HTML events, as html.parser.HTMLParser delivers them to the handlers

StartTag(tag, cls) == [kind |-> "start", tag |-> tag, cls |-> cls, data |-> <<>>]
EndTag(tag) == [kind |-> "end", tag |-> tag, cls |-> "", data |-> <<>>]
Data(text) == [kind |-> "data", tag |-> "", cls |-> "", data |-> text]

\* ------------------------------------------------------------------------
\* _TableParser

TableParser_init ==
  [in_table |-> FALSE, in_row |-> FALSE, td_nr |-> 0, td_done |-> FALSE]

TableParser_handle_starttag(p, tag, cls) ==
  IF tag = "table" /\ cls = "list_tb" THEN [p EXCEPT !.in_table = TRUE]
  ELSE IF tag = "tr" /\ p.in_table THEN [p EXCEPT !.in_row = TRUE]
  ELSE IF tag = "td" /\ p.in_row
       THEN [p EXCEPT !.td_nr = p.td_nr + 1, !.td_done = FALSE]
  ELSE p

\* fire: _on_td(td_nr, data) is called
TableParser_handle_data(p, data) ==
  IF p.td_nr > 0 /\ data # <<"n", "/", "a">> /\ ~p.td_done
  THEN [p |-> [p EXCEPT !.td_done = TRUE], fire |-> TRUE]
  ELSE [p |-> p, fire |-> FALSE]

\* fire: _on_tr_end() is called (before the row state is reset)
TableParser_handle_endtag(p, tag) ==
  IF tag = "table" /\ p.in_table
  THEN [p |-> [p EXCEPT !.in_table = FALSE], fire |-> FALSE]
  ELSE IF tag = "tr" /\ p.in_row /\ p.td_nr > 0
       THEN [p |-> [p EXCEPT !.in_row = FALSE, !.td_nr = 0], fire |-> TRUE]
  ELSE [p |-> p, fire |-> FALSE]

\* A document fed to a _TableParser one event at a time.  p: the parser.
\* open: the <table> elements of the document that are open, outermost
\* first, each with what the markup says of it: marked (class list_tb),
\* in_tr (a row is open), cells (<td> cells the row has so far), in_td (a
\* cell of the row is open), seen (the cell has had a text node other than
\* "n/a").  calls: the _on_td calls since the last <td>.  last: what the
\* last event did: td is <<nr>> when _on_td(nr, data) was called, tr tells
\* that _on_tr_end was called, first that the event is the first text node
\* other than "n/a" of the open cell, due that the event is the </tr> of a
\* row with at least one cell in a marked table.
NoCall == [ev |-> <<>>, td |-> <<>>, tr |-> FALSE, first |-> FALSE, due |-> FALSE]

NewRun == [p |-> TableParser_init, open |-> <<>>, calls |-> 0, last |-> NoCall]

NewTable(marked) ==
  [marked |-> marked, in_tr |-> FALSE, cells |-> 0, in_td |-> FALSE, seen |-> FALSE]

\* the open tables after event e
DocStep(open, e) ==
  LET n == Len(open)
      top == open[n]
      Top(rec) == [open EXCEPT ![n] = rec]
  IN CASE e.kind = "start" /\ e.tag = "table" -> Append(open, NewTable(e.cls = "list_tb"))
       [] e.kind = "end" /\ e.tag = "table" /\ n > 0 -> SubSeq(open, 1, n - 1)
       [] e.kind = "start" /\ e.tag = "tr" /\ n > 0 ->
            Top([top EXCEPT !.in_tr = TRUE, !.cells = 0, !.in_td = FALSE, !.seen = FALSE])
       [] e.kind = "end" /\ e.tag = "tr" /\ n > 0 ->
            Top([top EXCEPT !.in_tr = FALSE, !.cells = 0, !.in_td = FALSE, !.seen = FALSE])
       [] e.kind = "start" /\ e.tag = "td" /\ n > 0 /\ top.in_tr ->
            Top([top EXCEPT !.cells = top.cells + 1, !.in_td = TRUE, !.seen = FALSE])
       [] e.kind = "end" /\ e.tag = "td" /\ n > 0 ->
            Top([top EXCEPT !.in_td = FALSE, !.seen = FALSE])
       [] e.kind = "data" /\ e.data # <<"n", "/", "a">> /\ n > 0 /\ top.in_td ->
            Top([top EXCEPT !.seen = TRUE])
       [] OTHER -> open

\* feed(e) on the parser of r
RunStep(r, e) ==
  LET n == Len(r.open)
      h == CASE e.kind = "start" ->
                  [p |-> TableParser_handle_starttag(r.p, e.tag, e.cls), fire |-> FALSE]
             [] e.kind = "data" -> TableParser_handle_data(r.p, e.data)
             [] e.kind = "end" -> TableParser_handle_endtag(r.p, e.tag)
      sincetd == IF e.kind = "start" /\ e.tag = "td" THEN 0 ELSE r.calls
  IN [p |-> h.p,
      open |-> DocStep(r.open, e),
      calls |-> IF e.kind = "data" /\ h.fire /\ sincetd < 2 THEN sincetd + 1 ELSE sincetd,
      last |-> [ev |-> <<e>>,
                td |-> IF e.kind = "data" /\ h.fire THEN <<r.p.td_nr>> ELSE <<>>,
                tr |-> e.kind = "end" /\ h.fire,
                first |-> /\ e.kind = "data" /\ e.data # <<"n", "/", "a">>
                          /\ n > 0 /\ r.open[n].in_td /\ ~r.open[n].seen,
                due |-> /\ e.kind = "end" /\ e.tag = "tr"
                        /\ n > 0 /\ r.open[n].marked /\ r.open[n].in_tr
                        /\ r.open[n].cells > 0]]

\* ------------------------------------------------------------------------
\* dict objects: functions from keys (texts or None) to records

EmptyDict == [k \in {} |-> None]

DictSet(d, key, val) == (key :> val) @@ d

\* the effect of  obj.field = val  on a dict that may hold the object obj
\* (the record with that oid) under several keys
SetAttrByOid(d, oid, field, val) ==
  [k \in DOMAIN d |-> IF d[k].oid = oid THEN [d[k] EXCEPT ![field] = val] ELSE d[k]]

\* ------------------------------------------------------------------------
\* PanelStatus and _PanelsStatusPageParser

\* row: the ordinal of the page row in which the object was created
PanelStatus_new(row) ==
  [row |-> row, mac |-> None, label |-> None, voltage_in |-> None,
   voltage_out |-> None, current |-> None, power |-> None, pwm |-> None,
   temperature |-> None, status |-> None, rssi |-> None]

\* _status and _age are None; panels is the panels dict of the TigoCcaStatus
PanelsStatusPageParser_init(panels) ==
  [tp |-> TableParser_init, err |-> NoErr, trs |-> 0,
   panels |-> panels, status |-> <<>>, age |-> None]

\* variant: a value that does not convert leaves the field as it is
PanelsStatus_assign_skip(st, field, r) ==
  IF r.err # NoErr THEN st
  ELSE IF st.status = <<>> THEN [st EXCEPT !.err = "AttributeError"]
  ELSE [st EXCEPT !.status = <<[st.status[1] EXCEPT ![field] = r.val]>>]

\* self._status.<field> = <r>, where r is the evaluated right-hand side
PanelsStatus_assign(st, field, r) ==
  IF r.err # NoErr THEN [st EXCEPT !.err = r.err]
  ELSE IF st.status = <<>> THEN [st EXCEPT !.err = "AttributeError"]
  ELSE [st EXCEPT !.status = <<[st.status[1] EXCEPT ![field] = r.val]>>]

PanelsStatusPageParser_on_td(st, nr, data) ==
  CASE nr = 1 -> [st EXCEPT !.status = <<PanelStatus_new(st.trs)>>]
    [] nr = 2 -> PanelsStatus_assign(st, "mac", [err |-> NoErr, val |-> Strip(data)])
    [] nr = 3 -> PanelsStatus_assign(st, "label", [err |-> NoErr, val |-> Strip(data)])
    [] nr = 4 -> [st EXCEPT !.age = data]
    [] nr = 13 -> PanelsStatus_assign(st, "voltage_in", ParseFloat(data))
    [] nr = 14 -> PanelsStatus_assign(st, "voltage_out", ParseFloat(data))
    [] nr = 15 -> PanelsStatus_assign(st, "current", ParseFloat(data))
    [] nr = 16 -> PanelsStatus_assign(st, "power", ParseFloat(data))
    [] nr = 17 -> PanelsStatus_assign(st, "pwm", ParseInt(data, 10))
    [] nr = 18 -> PanelsStatus_assign(st, "temperature", ParseFloat(data))
    [] nr = 21 -> PanelsStatus_assign(st, "status", ParseInt(data, 16))
    [] nr = 22 -> PanelsStatus_assign(st, "rssi", ParseInt(data, 10))
    [] OTHER -> st

\* variant: the row is kept whatever its age text says
PanelsStatusPageParser_on_tr_end_keep(st) ==
  IF st.status = <<>> THEN st
  ELSE [st EXCEPT !.panels = DictSet(st.panels, st.status[1].label, st.status[1]),
                  !.status = <<>>]

PanelsStatusPageParser_on_tr_end(st) ==
  IF st.status = <<>> THEN st
  ELSE IF st.age = None THEN [st EXCEPT !.err = "TypeError"]
  ELSE IF ~Contains(st.age, <<"h", "r", "s">>) /\ ~Contains(st.age, <<"m", "i", "n">>)
       THEN [st EXCEPT !.panels = DictSet(st.panels, st.status[1].label, st.status[1]),
                       !.status = <<>>]
  ELSE [st EXCEPT !.status = <<>>]

\* ------------------------------------------------------------------------
\* PanelVersionInfo, _PanelsVersionPageParser and _PanelsInfoPageParser

\* oid: the identity of the object (the ordinal of the row that created it)
PanelVersionInfo_new(oid) ==
  [oid |-> oid, label |-> None, mac |-> None, fw |-> None, hw |-> None]

\* "<code>" in self.hw
HwHas(hw, code) == Contains(hw, code)

\* variant: the table holds one substring per model
PanelVersionInfo_model_short(info) ==
  IF info.hw = None THEN [err |-> "TypeError", val |-> None]
  ELSE IF HwHas(info.hw, <<"4", "5", "5">>) THEN [err |-> NoErr, val |-> "TS4-A-M"]
  ELSE IF HwHas(info.hw, <<"4", "6", "1">>) THEN [err |-> NoErr, val |-> "TS4-A-O"]
  ELSE IF HwHas(info.hw, <<"4", "6", "6">>) THEN [err |-> NoErr, val |-> "TS4-A-S"]
  ELSE IF HwHas(info.hw, <<"4", "8", "1">>) THEN [err |-> NoErr, val |-> "TS4-A-F"]
  ELSE IF HwHas(info.hw, <<"4", "8", "4">>) THEN [err |-> NoErr, val |-> "TS4-A-2F"]
  ELSE [err |-> NoErr, val |-> "?"]

\* PanelVersionInfo.model(): val is the model name, err the exception raised
PanelVersionInfo_model(info) ==
  IF info.hw = None THEN [err |-> "TypeError", val |-> None]
  ELSE IF HwHas(info.hw, <<"4", "5", "5">>) THEN [err |-> NoErr, val |-> "TS4-A-M"]
  ELSE IF HwHas(info.hw, <<"4", "6", "1">>) \/ HwHas(info.hw, <<"4", "6", "2">>)
       THEN [err |-> NoErr, val |-> "TS4-A-O"]
  ELSE IF HwHas(info.hw, <<"4", "6", "6">>) THEN [err |-> NoErr, val |-> "TS4-A-S"]
  ELSE IF HwHas(info.hw, <<"4", "8", "1">>) \/ HwHas(info.hw, <<"4", "8", "6">>)
            \/ HwHas(info.hw, <<"4", "8", "8">>)
       THEN [err |-> NoErr, val |-> "TS4-A-F"]
  ELSE IF HwHas(info.hw, <<"4", "8", "4">>) \/ HwHas(info.hw, <<"4", "8", "5">>)
            \/ HwHas(info.hw, <<"4", "8", "7">>)
       THEN [err |-> NoErr, val |-> "TS4-A-2F"]
  ELSE [err |-> NoErr, val |-> "?"]

PanelsVersionPageParser_init(infos) ==
  [tp |-> TableParser_init, err |-> NoErr, trs |-> 0, infos |-> infos, info |-> <<>>]

\* self._info.<field> = data; the object may already be stored in _infos
PanelsVersion_assign(st, field, data) ==
  IF st.info = <<>> THEN [st EXCEPT !.err = "AttributeError"]
  ELSE [st EXCEPT !.info = <<[st.info[1] EXCEPT ![field] = data]>>,
                  !.infos = SetAttrByOid(st.infos, st.info[1].oid, field, data)]

PanelsVersionPageParser_on_td(st, nr, data) ==
  CASE st.tp.td_nr = 1 -> [st EXCEPT !.info = <<PanelVersionInfo_new(st.trs)>>]
    [] st.tp.td_nr = 2 -> PanelsVersion_assign(st, "label", data)
    [] st.tp.td_nr = 7 -> PanelsVersion_assign(st, "fw", data)
    [] st.tp.td_nr = 9 -> PanelsVersion_assign(st, "hw", data)
    [] OTHER -> st

PanelsVersionPageParser_on_tr_end(st) ==
  IF st.info # <<>>
  THEN [st EXCEPT !.infos = DictSet(st.infos, st.info[1].label, st.info[1])]
  ELSE st

PanelsInfoPageParser_init(infos) ==
  [tp |-> TableParser_init, err |-> NoErr, trs |-> 0, infos |-> infos, mac |-> None]

PanelsInfoPageParser_on_td(st, nr, data) ==
  CASE st.tp.td_nr = 2 -> [st EXCEPT !.mac = data]
    [] st.tp.td_nr = 3 ->
         IF Strip(data) \in DOMAIN st.infos
         THEN [st EXCEPT !.infos =
                 SetAttrByOid(st.infos, st.infos[Strip(data)].oid, "mac", st.mac)]
         ELSE [st EXCEPT !.err = "KeyError"]
    [] OTHER -> st

\* _TableParser._on_tr_end, which _PanelsInfoPageParser inherits
TableParser_on_tr_end(st) == st

\* ------------------------------------------------------------------------
\* HTMLParser.feed for the three table interpreters

On_td(kind, st, nr, data) ==
  CASE kind = "status" -> PanelsStatusPageParser_on_td(st, nr, data)
    [] kind = "version" -> PanelsVersionPageParser_on_td(st, nr, data)
    [] kind = "info" -> PanelsInfoPageParser_on_td(st, nr, data)

On_tr_end(kind, st) ==
  CASE kind = "status" -> PanelsStatusPageParser_on_tr_end(st)
    [] kind = "version" -> PanelsVersionPageParser_on_tr_end(st)
    [] kind = "info" -> TableParser_on_tr_end(st)

\* one event; trs counts the <tr> tags of active tables
TableStep(kind, st, e) ==
  CASE e.kind = "start" ->
         [st EXCEPT !.tp = TableParser_handle_starttag(st.tp, e.tag, e.cls),
                    !.trs = IF e.tag = "tr" /\ st.tp.in_table THEN st.trs + 1 ELSE st.trs]
    [] e.kind = "data" ->
         LET r == TableParser_handle_data(st.tp, e.data)
         IN IF r.fire THEN On_td(kind, [st EXCEPT !.tp = r.p], r.p.td_nr, e.data)
            ELSE st
    [] e.kind = "end" ->
         LET r == TableParser_handle_endtag(st.tp, e.tag)
             s2 == IF r.fire THEN On_tr_end(kind, st) ELSE st
         IN IF s2.err # NoErr THEN s2 ELSE [s2 EXCEPT !.tp = r.p]

\* feed: the events evs[lo..hi] in order, up to the first exception (the
\* range is halved to keep the evaluation shallow)
RECURSIVE TableFeedRange(_, _, _, _, _)
TableFeedRange(kind, st, evs, lo, hi) ==
  IF lo > hi \/ st.err # NoErr THEN st
  ELSE IF lo = hi THEN TableStep(kind, st, evs[lo])
  ELSE LET mid == (lo + hi) \div 2
       IN TableFeedRange(kind, TableFeedRange(kind, st, evs, lo, mid), evs, mid + 1, hi)

TableFeed(kind, st, evs) == TableFeedRange(kind, st, evs, 1, Len(evs))

\* ------------------------------------------------------------------------
\* _CcaStatusPageParser

T_CCTemperature == <<"C", "C", " ", "T", "e", "m", "p", "e", "r", "a", "t", "u", "r", "e">>
T_UnitId == <<"U", "n", "i", "t", " ", "i", "d">>
T_FirmwareVersion ==
  <<"F", "i", "r", "m", "w", "a", "r", "e", " ", "V", "e", "r", "s", "i", "o", "n">>
T_HardwarePlatform ==
  <<"H", "a", "r", "d", "w", "a", "r", "e", " ", "P", "l", "a", "t", "f", "o", "r", "m">>

\* str.replace(old, ""), old not empty
RECURSIVE Remove(_, _)
Remove(s, old) ==
  IF Len(s) < Len(old) THEN s
  ELSE IF SubSeq(s, 1, Len(old)) = old THEN Remove(SubSeq(s, Len(old) + 1, Len(s)), old)
  ELSE <<Head(s)>> \o Remove(Tail(s), old)

\* str.split(" "): the pieces between single spaces, empty pieces included
RECURSIVE Split(_, _)
Split(s, cur) ==
  IF s = <<>> THEN <<cur>>
  ELSE IF Head(s) = " " THEN <<cur>> \o Split(Tail(s), <<>>)
  ELSE Split(Tail(s), Append(cur, Head(s)))

\* the scalar fields of a new TigoCcaStatus
TigoCcaStatus_init ==
  [unit_id |-> None, hw_platform |-> None, fw_version |-> None, temperature |-> None]

CcaStatusPageParser_init(cca) ==
  [err |-> NoErr, cca |-> cca, in_td |-> FALSE, was_temp_td |-> FALSE,
   was_fw_version |-> FALSE, was_hw_platform |-> FALSE]

CcaStatusPageParser_handle_starttag(st, tag) ==
  IF tag = "td" THEN [st EXCEPT !.in_td = TRUE] ELSE st

CcaStatusPageParser_handle_data(st, data) ==
  IF st.in_td /\ data = T_CCTemperature THEN [st EXCEPT !.was_temp_td = TRUE]
  ELSE IF st.in_td /\ st.was_temp_td
       THEN LET r == ParseFloat(Remove(data, <<" ", "C">>))
            IN IF r.err # NoErr THEN [st EXCEPT !.err = r.err]
               ELSE [st EXCEPT !.cca.temperature = r.val, !.was_temp_td = FALSE]
  ELSE IF Contains(data, T_UnitId)
       THEN LET parts == Split(data, <<>>)
            IN IF Len(parts) < 3 THEN [st EXCEPT !.err = "IndexError"]
               ELSE [st EXCEPT !.cca.unit_id = parts[3]]
  ELSE IF Contains(data, T_FirmwareVersion) THEN [st EXCEPT !.was_fw_version = TRUE]
  ELSE IF data # <<>> /\ st.was_fw_version /\ Strip(data) # <<"0", ".", "0">>
       THEN [st EXCEPT !.cca.fw_version = Strip(data), !.was_fw_version = FALSE]
  ELSE IF Contains(data, T_HardwarePlatform) THEN [st EXCEPT !.was_hw_platform = TRUE]
  ELSE IF data # <<>> /\ st.was_hw_platform
       THEN [st EXCEPT !.cca.hw_platform = Strip(data), !.was_hw_platform = FALSE]
  ELSE st

CcaStatusPageParser_handle_endtag(st, tag) == [st EXCEPT !.in_td = FALSE]

CcaStep(st, e) ==
  CASE e.kind = "start" -> CcaStatusPageParser_handle_starttag(st, e.tag)
    [] e.kind = "data" -> CcaStatusPageParser_handle_data(st, e.data)
    [] e.kind = "end" -> CcaStatusPageParser_handle_endtag(st, e.tag)

RECURSIVE CcaFeedRange(_, _, _, _)
CcaFeedRange(st, evs, lo, hi) ==
  IF lo > hi \/ st.err # NoErr THEN st
  ELSE IF lo = hi THEN CcaStep(st, evs[lo])
  ELSE LET mid == (lo + hi) \div 2
       IN CcaFeedRange(CcaFeedRange(st, evs, lo, mid), evs, mid + 1, hi)

CcaFeed(st, evs) == CcaFeedRange(st, evs, 1, Len(evs))

\* ------------------------------------------------------------------------
\* Device pages.  A table page is a sequence of rows, a row a sequence of cell
\* texts; an empty text is a cell without a text node.

NA == <<"n", "/", "a">>
T_x == <<"x">>
T_dash == <<"-">>
T_P1 == <<"P", "1">>
T_P2 == <<"P", "2">>
T_P2sp == <<"P", "2", " ">>
T_AA == <<"A", "A">>
T_BB == <<"B", "B">>

CellEvents(text) ==
  <<StartTag("td", "")>> \o (IF text = <<>> THEN <<>> ELSE <<Data(text)>>) \o <<EndTag("td")>>

RECURSIVE CellsEvents(_)
CellsEvents(cells) ==
  IF cells = <<>> THEN <<>> ELSE CellEvents(Head(cells)) \o CellsEvents(Tail(cells))

RowEvents(cells) == <<StartTag("tr", "")>> \o CellsEvents(cells) \o <<EndTag("tr")>>

RECURSIVE RowsEvents(_)
RowsEvents(rows) ==
  IF rows = <<>> THEN <<>> ELSE RowEvents(Head(rows)) \o RowsEvents(Tail(rows))

\* <table class="list_tb"> rows </table>
TablePageEvents(rows) ==
  <<StartTag("table", "list_tb")>> \o RowsEvents(rows) \o <<EndTag("table")>>

SeqsUpTo(S, n) == UNION {[1..k -> S] : k \in 0..n}

\* version page rows: marker, label, fw in column 7, hw in column 9
VerRow(c1, label, hw) ==
  <<c1, label, T_dash, T_dash, T_dash, T_dash, <<"1", ".", "2">>, T_dash, hw>>

T_455 == <<"4", "5", "5", "-", "x">>
T_484 == <<"4", "8", "4">>

VerRows ==
  { VerRow(T_x, T_P1, T_455),
    VerRow(T_x, T_P2, T_484),
    VerRow(T_x, NA, NA),
    VerRow(NA, T_P2, <<"4", "6", "1">>) }

VerPages == SeqsUpTo(VerRows, MaxVerRows)

\* hardware revisions of version pages: each substring of the table of
\* model(), alone, inside a longer text and two in one text, texts with no
\* such substring, and "n/a"
HwTexts ==
  { T_455, <<"4", "6", "1">>, <<"4", "6", "2">>, <<"4", "6", "6">>, <<"4", "8", "1">>,
    <<"4", "8", "6">>, <<"4", "8", "8">>, T_484, <<"4", "8", "5">>, <<"4", "8", "7">>,
    <<"r", "4", "6", "6", "b">>, <<"4", "6", "1", "-", "4", "5", "5">>,
    <<"4", "8", "4", "/", "4", "8", "1">>, <<"4", "5">>, <<"9", "9", "9">>, NA }

ModelVerPages == { <<VerRow(T_x, T_P1, hw)>> : hw \in HwTexts }

\* identity page rows: mac in column 2, label in column 3
InfoRow(mac, label) == <<T_dash, mac, label>>

InfoRows ==
  { InfoRow(T_AA, T_P1), InfoRow(T_BB, T_P2sp), InfoRow(NA, T_P2sp) }

InfoPages == SeqsUpTo(InfoRows, MaxInfoRows)

\* live-status page rows: marker, mac, label, age, and the numeric columns
LiveRow(c1, mac, label, age, vin) ==
  <<c1, mac, label, age, T_dash, T_dash, T_dash, T_dash, T_dash, T_dash, T_dash, T_dash,
    vin, <<"3", "0", ".", "1">>, <<"0", ".", "5">>, <<"6">>, <<"2", "5", "5">>, <<"4", "1", ".", "5">>,
    T_dash, T_dash, <<"c", "0">>, <<"-", "7", "0">>>>

T_fresh == <<"5", " ", "s">>
T_min == <<"2", " ", "m", "i", "n">>
T_hrs == <<"1", " ", "h", "r", "s">>
T_vin == <<"1", "2", ".", "5">>

\* the row with the text of one cell replaced
LiveRowWith(row, col, text) == [row EXCEPT ![col] = text]

T_frac == <<"1", ".", "5">>
T_zz == <<"z", "z">>

LiveRows ==
  { LiveRow(T_x, T_AA, T_P1, T_fresh, T_vin),
    LiveRow(T_x, T_BB, T_P2sp, T_min, T_vin),
    LiveRow(T_x, T_AA, T_P1, T_hrs, NA),
    LiveRow(T_x, T_BB, T_P2sp, NA, T_vin),
    LiveRow(NA, T_AA, T_P1, T_fresh, T_vin),
    LiveRow(T_x, T_BB, NA, T_fresh, T_x),
    LiveRow(T_x, T_AA, <<>>, T_fresh, NA),
    LiveRowWith(LiveRow(T_x, T_AA, T_P1, T_fresh, T_vin), 17, T_frac),
    LiveRowWith(LiveRow(T_x, T_BB, T_P2sp, T_fresh, T_vin), 21, T_zz) }

LivePages == SeqsUpTo(LiveRows, MaxLiveRows)

\* summary pages: the texts of the cells of the page, in order
SummaryPages ==
  { <<>>,
    <<T_CCTemperature, <<"2", "3", ".", "5", " ", "C">>, T_FirmwareVersion, <<"1", ".", "2">>,
      T_HardwarePlatform, <<"X", "1">>, <<"U", "n", "i", "t", " ", "i", "d", " ", "1", "2", "3">>>>,
    <<T_FirmwareVersion, <<"0", ".", "0">>, T_HardwarePlatform, <<"X", "1">>>>,
    <<T_CCTemperature, NA>> }

SummaryPageEvents(cells) == CellsEvents(cells)

\* ------------------------------------------------------------------------
\* TigoCCA

\* What the transport does with one GET: the response arrives ("ok"), the
\* server disconnects with a message whose code is 303 ("d303") or another
\* code ("d500"), it disconnects with a message that has no code
\* ("dnocode"), or the request fails in another way ("err").
Resps == {"ok", "d303", "d500", "dnocode", "err"}

\* variant: every server disconnect is raised again, also the one with code 303
TigoCCA_get_reraise(resp, text) ==
  CASE resp = "ok" -> [err |-> NoErr, ret |-> <<text>>]
    [] resp = "d303" -> [err |-> "ServerDisconnectedError", ret |-> <<>>]
    [] resp = "d500" -> [err |-> "ServerDisconnectedError", ret |-> <<>>]
    [] resp = "dnocode" -> [err |-> "AttributeError", ret |-> <<>>]
    [] resp = "err" -> [err |-> "ClientError", ret |-> <<>>]

\* variant: every server disconnect is swallowed, whatever its code
TigoCCA_get_swallow(resp, text) ==
  CASE resp = "ok" -> [err |-> NoErr, ret |-> <<text>>]
    [] resp = "d303" -> [err |-> NoErr, ret |-> <<>>]
    [] resp = "d500" -> [err |-> NoErr, ret |-> <<>>]
    [] resp = "dnocode" -> [err |-> NoErr, ret |-> <<>>]
    [] resp = "err" -> [err |-> "ClientError", ret |-> <<>>]

\* _get: ret is <<text>>, or <<>> for None; err the exception that leaves _get
TigoCCA_get(resp, text) ==
  CASE resp = "ok" -> [err |-> NoErr, ret |-> <<text>>]
    [] resp = "d303" -> [err |-> NoErr, ret |-> <<>>]
    [] resp = "d500" -> [err |-> "ServerDisconnectedError", ret |-> <<>>]
    [] resp = "dnocode" -> [err |-> "AttributeError", ret |-> <<>>]
    [] resp = "err" -> [err |-> "ClientError", ret |-> <<>>]

URL_meshnodever == "/cgi-bin/meshnodever"
URL_meshnodeinfo == "/cgi-bin/meshnodeinfo"
URL_lmudui == "/cgi-bin/lmudui"
URL_meshdatapower == "/cgi-bin/meshdatapower"
URL_off == "/cgi-bin/lmudui?State=3"
URL_on == "/cgi-bin/lmudui?State=1"

VARIABLES
  panels,    \* TigoCCA.panels
  task,      \* the calls of the client's operations, one record per caller
  modelled,  \* the last call of model() on a record of panels: <<>> before it
  run,       \* a _TableParser that is fed a document event by event
  kept,      \* the objects a caller got from the client earlier and still holds
  reported   \* the last reading of a panel sensor entity: <<>> before it

vars == <<panels, task, modelled, run, kept, reported>>

\* what the operations of the client leave alone
rest == <<modelled, run, reported>>

\* A caller's record.  op, pc: the operation and where it stands ("get1",
\* "get2": waiting for its first, second GET).  status: the TigoCcaStatus
\* that get_status builds.  The other fields record the call: the GETs
\* issued, what the transport did with each, the pages received, how the
\* call ended and what it returned, and (pre) the client's mapping at the
\* time of the call, which is kept while the call runs and when it ends in
\* a transport failure, (prekeys) the keys of that mapping, and (among) the
\* callers whose operations were running when the call was made.
NewTask(op, url, pre, status) ==
  [op |-> op, pc |-> "get1", urls |-> <<url>>, resps |-> <<>>,
   page1 |-> <<>>, page2 |-> <<>>, status |-> status,
   outcome |-> "running", err |-> NoErr, ret |-> <<>>, pre |-> pre,
   prekeys |-> DOMAIN pre,
   among |-> {u \in DOMAIN task : task[u].pc # "idle"}]

IdleTask ==
  [op |-> "none", pc |-> "idle", urls |-> <<>>, resps |-> <<>>,
   page1 |-> <<>>, page2 |-> <<>>, status |-> <<>>,
   outcome |-> "none", err |-> NoErr, ret |-> <<>>, pre |-> EmptyDict,
   prekeys |-> {}, among |-> {}]

\* What a caller holds.  mapping: <<>> or <<d>>, the dict it read from the
\* client's panels attribute, with its content; mapping_live: that dict is
\* still the object the attribute is bound to.  snapshot: <<>> or <<s>>, the
\* TigoCcaStatus a get_status returned to it; snapshot_of: the caller whose
\* get_status is writing to that very object, 0 when none is.
NothingKept ==
  [mapping |-> <<>>, mapping_live |-> FALSE, snapshot |-> <<>>, snapshot_of |-> 0]

\* a parser has written to the dict that self.panels is bound to: d is its
\* content now
KeptPanels(k, d) == IF k.mapping_live THEN [k EXCEPT !.mapping = <<d>>] ELSE k

\* the get_status of t has written to its TigoCcaStatus: tk is t's record
KeptStatus(k, t, tk) ==
  IF k.snapshot_of = t /\ tk.status # <<>> THEN [k EXCEPT !.snapshot = tk.status]
  ELSE IF k.snapshot_of = t /\ tk.ret # <<>> THEN [k EXCEPT !.snapshot = tk.ret]
  ELSE k

Init ==
  /\ panels = EmptyDict
  /\ task = [t \in {1} |-> IdleTask]
  /\ modelled = <<>>
  /\ run = NewRun
  /\ kept = NothingKept
  /\ reported = <<>>

\* the call ends with an exception
Raised(tk, resp, err) ==
  [tk EXCEPT !.pc = "idle", !.resps = Append(@, resp), !.outcome = "raised",
             !.err = err, !.status = <<>>,
             !.pre = IF resp \in {"ok", "d303"} THEN EmptyDict ELSE @]

\* the call returns ret
Returned(tk, resp, ret) ==
  [tk EXCEPT !.pc = "idle", !.resps = Append(@, resp), !.outcome = "returned",
             !.ret = ret, !.status = <<>>, !.pre = EmptyDict]

\* variant: read_config fills the mapping the client already holds
Call_read_config_keep(t) ==
  /\ task[t].pc = "idle"
  /\ \A u \in DOMAIN task : task[u].pc # "idle" => task[u].op # "read_config"
  /\ panels' = panels
  /\ task' = [task EXCEPT ![t] = NewTask("read_config", URL_meshnodever, panels, <<>>)]
  /\ UNCHANGED kept
  /\ UNCHANGED rest

\* variant: read_config empties the dict the client holds and fills it again
Call_read_config_clear(t) ==
  /\ task[t].pc = "idle"
  /\ \A u \in DOMAIN task : task[u].pc # "idle" => task[u].op # "read_config"
  /\ panels' = EmptyDict
  /\ task' = [task EXCEPT ![t] = NewTask("read_config", URL_meshnodever, panels, <<>>)]
  /\ kept' = KeptPanels(kept, EmptyDict)
  /\ UNCHANGED rest

\* variant: read_config issues the GETs of both pages at once
Call_read_config_gather(t) ==
  /\ task[t].pc = "idle"
  /\ \A u \in DOMAIN task : task[u].pc # "idle" => task[u].op # "read_config"
  /\ panels' = EmptyDict
  /\ task' = [task EXCEPT ![t] =
       [NewTask("read_config", URL_meshnodever, panels, <<>>)
          EXCEPT !.urls = <<URL_meshnodever, URL_meshnodeinfo>>]]
  /\ kept' = [kept EXCEPT !.mapping_live = FALSE]
  /\ UNCHANGED rest

\* read_config up to its first await
Call_read_config(t) ==
  /\ task[t].pc = "idle"
  /\ \A u \in DOMAIN task : task[u].pc # "idle" => task[u].op # "read_config"
  /\ panels' = EmptyDict
  /\ task' = [task EXCEPT ![t] = NewTask("read_config", URL_meshnodever, panels, <<>>)]
  /\ kept' = [kept EXCEPT !.mapping_live = FALSE]
  /\ UNCHANGED rest

\* read_config from the end of the first GET to the second await
ReadConfig_version(t, resp, page) ==
  /\ task[t].op = "read_config" /\ task[t].pc = "get1"
  /\ LET g == TigoCCA_get(resp, TablePageEvents(page))
     IN IF g.err # NoErr
        THEN /\ task' = [task EXCEPT ![t] = Raised(@, resp, g.err)]
             /\ UNCHANGED panels
        ELSE IF g.ret = <<>>
        THEN /\ task' = [task EXCEPT ![t] = Raised(@, resp, "TypeError")]
             /\ UNCHANGED panels
        ELSE LET st == TableFeed("version", PanelsVersionPageParser_init(panels), g.ret[1])
             IN /\ panels' = st.infos
                /\ task' = [task EXCEPT ![t] =
                     IF st.err # NoErr
                     THEN Raised([@ EXCEPT !.page1 = page], resp, st.err)
                     ELSE [@ EXCEPT !.pc = "get2", !.page1 = page,
                                    !.resps = Append(@, resp),
                                    !.urls = Append(@, URL_meshnodeinfo)]]
  /\ kept' = KeptPanels(kept, panels')
  /\ UNCHANGED rest

\* read_config from the end of the second GET to its return
ReadConfig_info(t, resp, page) ==
  /\ task[t].op = "read_config" /\ task[t].pc = "get2"
  /\ LET g == TigoCCA_get(resp, TablePageEvents(page))
     IN IF g.err # NoErr
        THEN /\ task' = [task EXCEPT ![t] = Raised(@, resp, g.err)]
             /\ UNCHANGED panels
        ELSE IF g.ret = <<>>
        THEN /\ task' = [task EXCEPT ![t] = Raised(@, resp, "TypeError")]
             /\ UNCHANGED panels
        ELSE LET st == TableFeed("info", PanelsInfoPageParser_init(panels), g.ret[1])
             IN /\ panels' = st.infos
                /\ task' = [task EXCEPT ![t] =
                     IF st.err # NoErr
                     THEN Raised([@ EXCEPT !.page2 = page], resp, st.err)
                     ELSE Returned([@ EXCEPT !.page2 = page], resp, <<>>)]
  /\ kept' = KeptPanels(kept, panels')
  /\ UNCHANGED rest

\* variant: the snapshot starts with a record for every configured panel
Call_get_status_seeded(t) ==
  /\ task[t].pc = "idle"
  /\ task' = [task EXCEPT ![t] =
       NewTask("get_status", URL_lmudui, panels,
               <<[cca |-> TigoCcaStatus_init,
                  panels |-> [k \in DOMAIN panels |-> [PanelStatus_new(0) EXCEPT !.label = k]]]>>)]
  /\ UNCHANGED panels
  /\ kept' = [kept EXCEPT !.snapshot_of = IF @ = t THEN 0 ELSE @]
  /\ UNCHANGED rest

\* variant: the status being built is shared by the calls that are running
Call_get_status_shared(t) ==
  /\ task[t].pc = "idle"
  /\ task' = [task EXCEPT ![t] =
       NewTask("get_status", URL_lmudui, panels,
               IF \E u \in DOMAIN task : task[u].status # <<>>
               THEN task[CHOOSE u \in DOMAIN task : task[u].status # <<>>].status
               ELSE <<[cca |-> TigoCcaStatus_init, panels |-> EmptyDict]>>)]
  /\ UNCHANGED panels
  /\ kept' = [kept EXCEPT !.snapshot_of = IF @ = t THEN 0 ELSE @]
  /\ UNCHANGED rest

\* get_status up to its first await
Call_get_status(t) ==
  /\ task[t].pc = "idle"
  /\ task' = [task EXCEPT ![t] =
       NewTask("get_status", URL_lmudui, panels,
               <<[cca |-> TigoCcaStatus_init, panels |-> EmptyDict]>>)]
  /\ UNCHANGED panels
  /\ kept' = [kept EXCEPT !.snapshot_of = IF @ = t THEN 0 ELSE @]
  /\ UNCHANGED rest

\* get_status from the end of the first GET to the second await
GetStatus_summary(t, resp, page) ==
  /\ task[t].op = "get_status" /\ task[t].pc = "get1"
  /\ LET g == TigoCCA_get(resp, SummaryPageEvents(page))
     IN task' = [task EXCEPT ![t] =
          IF g.err # NoErr THEN Raised(@, resp, g.err)
          ELSE IF g.ret = <<>> THEN Raised(@, resp, "TypeError")
          ELSE LET st == CcaFeed(CcaStatusPageParser_init(@.status[1].cca), g.ret[1])
               IN IF st.err # NoErr
                  THEN Raised([@ EXCEPT !.page1 = page], resp, st.err)
                  ELSE [@ EXCEPT !.pc = "get2", !.page1 = page,
                                 !.resps = Append(@, resp),
                                 !.urls = Append(@, URL_meshdatapower),
                                 !.status = <<[cca |-> st.cca, panels |-> @[1].panels]>>]]
  /\ UNCHANGED panels
  /\ kept' = KeptStatus(kept, t, task'[t])
  /\ UNCHANGED rest

\* variant: when the second GET fails, the status built so far is returned
GetStatus_live_partial(t, resp, page) ==
  /\ task[t].op = "get_status" /\ task[t].pc = "get2"
  /\ LET g == TigoCCA_get(resp, TablePageEvents(page))
     IN task' = [task EXCEPT ![t] =
          IF g.err # NoErr \/ g.ret = <<>> THEN Returned(@, resp, @.status)
          ELSE LET st == TableFeed("status", PanelsStatusPageParser_init(@.status[1].panels),
                                   g.ret[1])
               IN IF st.err # NoErr
                  THEN Raised([@ EXCEPT !.page2 = page], resp, st.err)
                  ELSE Returned([@ EXCEPT !.page2 = page], resp,
                                <<[cca |-> @.status[1].cca, panels |-> st.panels]>>)]
  /\ UNCHANGED panels
  /\ kept' = KeptStatus(kept, t, task'[t])
  /\ UNCHANGED rest

\* get_status from the end of the second GET to its return
GetStatus_live(t, resp, page) ==
  /\ task[t].op = "get_status" /\ task[t].pc = "get2"
  /\ LET g == TigoCCA_get(resp, TablePageEvents(page))
     IN task' = [task EXCEPT ![t] =
          IF g.err # NoErr THEN Raised(@, resp, g.err)
          ELSE IF g.ret = <<>> THEN Raised(@, resp, "TypeError")
          ELSE LET st == TableFeed("status", PanelsStatusPageParser_init(@.status[1].panels),
                                   g.ret[1])
               IN IF st.err # NoErr
                  THEN Raised([@ EXCEPT !.page2 = page], resp, st.err)
                  ELSE Returned([@ EXCEPT !.page2 = page], resp,
                                <<[cca |-> @.status[1].cca, panels |-> st.panels]>>)]
  /\ UNCHANGED panels
  /\ kept' = KeptStatus(kept, t, task'[t])
  /\ UNCHANGED rest

\* turn_modules_off and turn_modules_on up to their await
Call_turn_modules_off(t) ==
  /\ task[t].pc = "idle"
  /\ task' = [task EXCEPT ![t] = NewTask("turn_modules_off", URL_off, panels, <<>>)]
  /\ UNCHANGED panels
  /\ UNCHANGED kept
  /\ UNCHANGED rest

Call_turn_modules_on(t) ==
  /\ task[t].pc = "idle"
  /\ task' = [task EXCEPT ![t] = NewTask("turn_modules_on", URL_on, panels, <<>>)]
  /\ UNCHANGED panels
  /\ UNCHANGED kept
  /\ UNCHANGED rest

\* turn_modules_off and turn_modules_on from the end of the GET to the return
TurnModules_done(t, resp) ==
  /\ task[t].op \in {"turn_modules_off", "turn_modules_on"} /\ task[t].pc = "get1"
  /\ LET g == TigoCCA_get(resp, <<>>)
     IN task' = [task EXCEPT ![t] =
          IF g.err # NoErr THEN Raised(@, resp, g.err) ELSE Returned(@, resp, <<>>)]
  /\ UNCHANGED panels
  /\ UNCHANGED kept
  /\ UNCHANGED rest

\* a caller reads the client's panels attribute after a read_config and keeps
\* the dict
Keep_mapping ==
  /\ \A u \in DOMAIN task : task[u].pc # "idle" => task[u].op # "read_config"
  /\ \E u \in DOMAIN task : task[u].op = "read_config"
  /\ kept' = [kept EXCEPT !.mapping = <<panels>>, !.mapping_live = TRUE]
  /\ UNCHANGED <<panels, task, modelled, run, reported>>

\* the caller t keeps the snapshot its get_status returned
Keep_snapshot(t) ==
  /\ task[t].op = "get_status" /\ task[t].pc = "idle" /\ task[t].outcome = "returned"
  /\ kept' = [kept EXCEPT !.snapshot = task[t].ret, !.snapshot_of = t]
  /\ UNCHANGED <<panels, task, modelled, run, reported>>

\* the fields of PanelStatus that the panel sensors report
SensorFields ==
  {"voltage_in", "voltage_out", "current", "power", "temperature", "pwm", "status", "rssi"}

\* the labels of the panels that sensor entities were set up for
SensorLabels == {T_P1, Strip(T_P2sp)}

\* getter(panel) of the sensor for field:
\*   panel.<field> if not panel.outdated else None
Sensor_getter(field, panel) ==
  IF "outdated" \notin DOMAIN panel THEN [err |-> "AttributeError", val |-> None]
  ELSE IF ~panel.outdated THEN [err |-> NoErr, val |-> panel[field]]
  ELSE [err |-> NoErr, val |-> None]

\* TigoUpdateCoordinator.panel_status: <<>> for None
Coordinator_panel_status(data, label) ==
  IF label \in DOMAIN data.panels THEN <<data.panels[label]>> ELSE <<>>

\* TigoPanelSensorEntity.native_value
Sensor_native_value(data, label, field) ==
  LET status == Coordinator_panel_status(data, label)
  IN IF status # <<>> THEN Sensor_getter(field, status[1])
     ELSE [err |-> NoErr, val |-> None]

\* TigoPanelSensorEntity.available
Sensor_available(data, label, field) ==
  LET v == Sensor_native_value(data, label, field)
  IN IF v.err # NoErr THEN [err |-> v.err, val |-> None]
     ELSE [err |-> NoErr, val |-> v.val # None]

\* the entity of a panel and a field is read; coordinator.data is the
\* snapshot the coordinator kept from its last poll that returned
Read_sensor(label, field) ==
  /\ kept.snapshot # <<>>
  /\ reported' = <<[label |-> label, field |-> field, data |-> kept.snapshot[1],
                    native_value |-> Sensor_native_value(kept.snapshot[1], label, field),
                    available |-> Sensor_available(kept.snapshot[1], label, field)]>>
  /\ UNCHANGED <<panels, task, modelled, run, kept>>

\* a caller asks the record that panels holds under key for its model
Call_model(key) ==
  /\ key \in DOMAIN panels
  /\ modelled' = <<[hw |-> panels[key].hw, res |-> PanelVersionInfo_model(panels[key])]>>
  /\ UNCHANGED <<panels, task, run, kept, reported>>

\* the pages a GET may answer with: only an "ok" response carries one
PagesOf(resp, pages) == IF resp = "ok" THEN pages ELSE {<<>>}

\* The version and identity pages served in Spec, where all four operations
\* run: a controller with no panel, with one and with two panels.  SpecConfig
\* below runs read_config on all pages of VerPages and InfoPages.
DeviceVerPages ==
  { <<>>, <<VerRow(T_x, T_P1, T_455)>>, <<VerRow(T_x, T_P1, T_455), VerRow(T_x, T_P2, T_484)>> }

DeviceInfoPages ==
  { <<>>, <<InfoRow(T_AA, T_P1)>>, <<InfoRow(T_AA, T_P1), InfoRow(T_BB, T_P2sp)>> }

Next ==
  \E t \in DOMAIN task :
    \/ Call_read_config(t)
    \/ \E resp \in Resps : \E page \in PagesOf(resp, DeviceVerPages) :
         ReadConfig_version(t, resp, page)
    \/ \E resp \in Resps : \E page \in PagesOf(resp, DeviceInfoPages) :
         ReadConfig_info(t, resp, page)
    \/ Call_get_status(t)
    \/ \E resp \in Resps : \E page \in PagesOf(resp, SummaryPages) :
         GetStatus_summary(t, resp, page)
    \/ \E resp \in Resps : \E page \in PagesOf(resp, LivePages) :
         GetStatus_live(t, resp, page)
    \/ Call_turn_modules_off(t)
    \/ Call_turn_modules_on(t)
    \/ \E resp \in Resps : TurnModules_done(t, resp)

Spec == Init /\ [][Next]_vars

\* read_config alone, called again and again, on every version and identity page
NextConfig ==
  \E t \in DOMAIN task :
    \/ Call_read_config(t)
    \/ \E resp \in Resps : \E page \in PagesOf(resp, VerPages) :
         ReadConfig_version(t, resp, page)
    \/ \E resp \in Resps : \E page \in PagesOf(resp, InfoPages) :
         ReadConfig_info(t, resp, page)

SpecConfig == Init /\ [][NextConfig]_vars

\* read_config on version pages of one row with every hardware revision of
\* HwTexts, and model() on the records it stored
NextModel ==
  \/ \E t \in DOMAIN task :
       \/ Call_read_config(t)
       \/ \E resp \in Resps : \E page \in PagesOf(resp, ModelVerPages) :
            ReadConfig_version(t, resp, page)
       \/ \E resp \in Resps : \E page \in PagesOf(resp, DeviceInfoPages) :
            ReadConfig_info(t, resp, page)
  \/ \E key \in DOMAIN panels : Call_model(key)

SpecModel == Init /\ [][NextModel]_vars

\* The summary and live-status pages served in SpecKept: a controller that
\* reports nothing, then itself and one fresh panel, then two panels.
DeviceSummaryPages ==
  { <<>>,
    <<T_CCTemperature, <<"2", "3", ".", "5", " ", "C">>, T_FirmwareVersion, <<"1", ".", "2">>,
      T_HardwarePlatform, <<"X", "1">>, <<"U", "n", "i", "t", " ", "i", "d", " ", "1", "2", "3">>>> }

DeviceLivePages ==
  { <<>>, <<LiveRow(T_x, T_AA, T_P1, T_fresh, T_vin)>>,
    <<LiveRow(T_x, T_AA, T_P1, T_fresh, T_vin), LiveRow(T_x, T_BB, T_P2sp, T_min, T_vin)>> }

\* all operations, and callers that keep what the client handed out
NextKept ==
  \/ \E t \in DOMAIN task :
       \/ Call_read_config(t)
       \/ \E resp \in Resps : \E page \in PagesOf(resp, DeviceVerPages) :
            ReadConfig_version(t, resp, page)
       \/ \E resp \in Resps : \E page \in PagesOf(resp, DeviceInfoPages) :
            ReadConfig_info(t, resp, page)
       \/ Call_get_status(t)
       \/ \E resp \in Resps : \E page \in PagesOf(resp, DeviceSummaryPages) :
            GetStatus_summary(t, resp, page)
       \/ \E resp \in Resps : \E page \in PagesOf(resp, DeviceLivePages) :
            GetStatus_live(t, resp, page)
       \/ Call_turn_modules_off(t)
       \/ Call_turn_modules_on(t)
       \/ \E resp \in Resps : TurnModules_done(t, resp)
       \/ Keep_snapshot(t)
  \/ Keep_mapping

SpecKept == Init /\ [][NextKept]_vars

\* Two callers of one client, the coordinator's poll and a button press:
\* get_status and the control commands, overlapping in any order.
InitTwo ==
  /\ panels = EmptyDict
  /\ task = [t \in {1, 2} |-> IdleTask]
  /\ modelled = <<>>
  /\ run = NewRun
  /\ kept = NothingKept
  /\ reported = <<>>

NextTwo ==
  \E t \in DOMAIN task :
    \/ Call_get_status(t)
    \/ \E resp \in Resps : \E page \in PagesOf(resp, DeviceSummaryPages) :
         GetStatus_summary(t, resp, page)
    \/ \E resp \in Resps : \E page \in PagesOf(resp, DeviceLivePages) :
         GetStatus_live(t, resp, page)
    \/ Call_turn_modules_off(t)
    \/ Call_turn_modules_on(t)
    \/ \E resp \in Resps : TurnModules_done(t, resp)

SpecTwo == InitTwo /\ [][NextTwo]_vars

\* the coordinator polls get_status, keeps each snapshot that is returned,
\* and the panel sensor entities are read
NextPoll ==
  \/ \E t \in DOMAIN task :
       \/ Call_get_status(t)
       \/ \E resp \in Resps : \E page \in PagesOf(resp, DeviceSummaryPages) :
            GetStatus_summary(t, resp, page)
       \/ \E resp \in Resps : \E page \in PagesOf(resp, DeviceLivePages) :
            GetStatus_live(t, resp, page)
       \/ Keep_snapshot(t)
  \/ \E label \in SensorLabels : \E field \in SensorFields : Read_sensor(label, field)

SpecPoll == Init /\ [][NextPoll]_vars

\* the events of the documents fed to the table parser
ParserEvents ==
  { StartTag("table", "list_tb"), StartTag("table", ""), StartTag("tr", ""),
    StartTag("td", ""), EndTag("table"), EndTag("tr"), EndTag("td"),
    Data(<<"a">>), Data(NA) }

\* the parser is fed one more event
Feed(e) ==
  /\ (e.kind = "start" /\ e.tag = "table") => Len(run.open) < MaxDepth
  /\ (e.kind = "start" /\ e.tag = "td") =>
       /\ run.p.td_nr < MaxCells
       /\ \A i \in 1..Len(run.open) : run.open[i].cells < MaxCells
  /\ run' = RunStep(run, e)
  /\ UNCHANGED <<panels, task, modelled, kept, reported>>

NextParser == \E e \in ParserEvents : Feed(e)

SpecParser == Init /\ [][NextParser]_vars

\* ------------------------------------------------------------------------
\* Properties

\* the call of op by t has ended
Ended(t, op) == task[t].op = op /\ task[t].pc = "idle"

\* what the transport did with the last GET of t's call
LastResp(t) == task[t].resps[Len(task[t].resps)]

\* a GET that ended in a connection fault other than the disconnect with 303
TransportFailure(resp) == resp \notin {"ok", "d303"}

\* the label and the mac a cell carries: None for an empty cell and for "n/a"
CellValue(text) == IF text \in {<<>>, NA} THEN None ELSE text
CellStripped(text) == IF text \in {<<>>, NA} THEN None ELSE Strip(text)

\* C1: when a page fetch of read_config ends in a transport failure, the call
\* raises and the client's panel mapping is the mapping it held when
\* read_config was called.
C1_FailureLeavesMapping ==
  \A t \in DOMAIN task :
    (Ended(t, "read_config") /\ TransportFailure(LastResp(t)))
      => (task[t].outcome = "raised" /\ panels = task[t].pre)

\* the age text (column 4) of a live-status row says hours or minutes
StaleRow(row) == Contains(row[4], <<"h", "r", "s">>) \/ Contains(row[4], <<"m", "i", "n">>)

\* C2: the snapshot that get_status returns holds no record built from a row
\* of the live-status page whose age text contains "hrs" or "min".
C2_NoStaleRowInSnapshot ==
  \A t \in DOMAIN task :
    (Ended(t, "get_status") /\ task[t].outcome = "returned")
      => \A i \in 1..Len(task[t].page2) :
           StaleRow(task[t].page2[i])
             => \A k \in DOMAIN task[t].ret[1].panels : task[t].ret[1].panels[k].row # i

\* get_status returned a snapshot with a panel although the page also had a
\* stale row with the label of that panel
C2_Witness ==
  \E t \in DOMAIN task :
    /\ Ended(t, "get_status") /\ task[t].outcome = "returned"
    /\ \E i \in 1..Len(task[t].page2) :
         /\ StaleRow(task[t].page2[i])
         /\ CellStripped(task[t].page2[i][3]) \in DOMAIN task[t].ret[1].panels

\* C3: a cell "n/a" leaves its field unset and does not make the read fail:
\* in a returned snapshot the voltage_in and the label of a record are None
\* when the cell of its row is "n/a"; a mac is None when every identity row
\* of its label has "n/a" as mac; and get_status does not raise on a
\* live-status page whose cells are all valid or "n/a".
C3_NaLeavesFieldUnset ==
  \A t \in DOMAIN task :
    /\ (Ended(t, "get_status") /\ task[t].outcome = "returned")
         => \A k \in DOMAIN task[t].ret[1].panels :
              LET rec == task[t].ret[1].panels[k]
                  row == task[t].page2[rec.row]
              IN /\ row[13] = NA => rec.voltage_in = None
                 /\ row[3] = NA => rec.label = None
    /\ (Ended(t, "read_config") /\ task[t].outcome = "returned")
         => \A k \in DOMAIN panels :
              LET rows == {i \in 1..Len(task[t].page2) : CellStripped(task[t].page2[i][3]) = k}
              IN (rows # {} /\ \A i \in rows : task[t].page2[i][2] = NA)
                   => panels[k].mac = None
    /\ (Ended(t, "get_status") /\ task[t].resps = <<"ok", "ok">>
          /\ \A i \in 1..Len(task[t].page2) :
               \/ task[t].page2[i][13] = NA
               \/ ParseFloat(task[t].page2[i][13]).err = NoErr)
         => task[t].outcome = "returned"

\* the key under which the live-status interpreter stores a row
LiveRowKey(row) == CellStripped(row[3])

\* C4: the panels of the snapshot that get_status returns are panels of rows
\* of the live-status page that this call fetched.
C4_SnapshotPanelsFromLivePage ==
  \A t \in DOMAIN task :
    (Ended(t, "get_status") /\ task[t].outcome = "returned")
      => \A k \in DOMAIN task[t].ret[1].panels :
           \E i \in 1..Len(task[t].page2) :
             /\ LiveRowKey(task[t].page2[i]) = k
             /\ task[t].ret[1].panels[k].row = i

\* get_status returned a snapshot without a panel that the client's
\* configuration mapping holds
C4_Witness ==
  \E t \in DOMAIN task :
    /\ Ended(t, "get_status") /\ task[t].outcome = "returned"
    /\ task[t].ret[1].panels # EmptyDict
    /\ \E k \in DOMAIN panels : k \notin DOMAIN task[t].ret[1].panels

\* C5: get_status returns a snapshot only when both GETs were answered, and
\* when its second GET ends in a transport failure it raises and returns
\* nothing.
C5_NoPartialSnapshot ==
  \A t \in DOMAIN task :
    task[t].op = "get_status"
      => /\ task[t].ret # <<>> => task[t].resps = <<"ok", "ok">>
         /\ (task[t].pc = "idle" /\ Len(task[t].resps) = 2 /\ TransportFailure(LastResp(t)))
              => (task[t].outcome = "raised" /\ task[t].ret = <<>>)

\* the second GET of get_status failed after the summary page had been read
C5_Witness ==
  \E t \in DOMAIN task :
    /\ Ended(t, "get_status") /\ task[t].resps = <<"ok", "err">>
    /\ task[t].page1 # <<>>
    /\ task[t].outcome = "raised" /\ task[t].ret = <<>>

\* C6: read_config returns when both pages arrived, also when an identity
\* row carries a label that is no key of the mapping built from the version
\* page.
C6_UnknownLabelIgnored ==
  \A t \in DOMAIN task :
    (/\ Ended(t, "read_config") /\ task[t].resps = <<"ok", "ok">>
     /\ \E i \in 1..Len(task[t].page2) :
          /\ CellValue(task[t].page2[i][3]) # None
          /\ Strip(task[t].page2[i][3]) \notin DOMAIN panels)
      => task[t].outcome = "returned"

\* the labels of the rows of a version page (column 2)
VerLabels(page) == {page[i][2] : i \in {j \in 1..Len(page) : CellValue(page[j][2]) # None}}

\* C7: after a read_config that returned, the keys of the client's mapping
\* are the labels of the rows of the version page of that call (None for a
\* row without label), whatever the mapping held before.
C7_KeysAreVersionLabels ==
  \A t \in DOMAIN task :
    (Ended(t, "read_config") /\ task[t].outcome = "returned")
      => /\ DOMAIN panels \ {None} = VerLabels(task[t].page1)
         /\ None \in DOMAIN panels
              => \E i \in 1..Len(task[t].page1) : CellValue(task[t].page1[i][2]) = None

\* read_config returned and a key of the previous mapping is gone
C7_Witness ==
  \E t \in DOMAIN task :
    /\ Ended(t, "read_config") /\ task[t].outcome = "returned"
    /\ \E k \in task[t].prekeys : k \notin DOMAIN panels

\* C8: after read_config, the mac of a label that identity rows carry is the
\* column-2 value of one of those rows (None when that cell is empty or
\* "n/a").
C8_MacFromSameRow ==
  \A t \in DOMAIN task :
    (Ended(t, "read_config") /\ task[t].outcome = "returned")
      => \A k \in DOMAIN panels :
           LET rows == {i \in 1..Len(task[t].page2) : CellStripped(task[t].page2[i][3]) = k}
           IN rows # {} => \E i \in rows : panels[k].mac = CellValue(task[t].page2[i][2])

\* C9: turn_modules_off issues one GET with State=3 and turn_modules_on one
\* with State=1, and each returns when the GET is answered and when the
\* server disconnects with code 303.
C9_ControlCommands ==
  \A t \in DOMAIN task :
    /\ task[t].op = "turn_modules_off" => task[t].urls = <<"/cgi-bin/lmudui?State=3">>
    /\ task[t].op = "turn_modules_on" => task[t].urls = <<"/cgi-bin/lmudui?State=1">>
    /\ (task[t].op \in {"turn_modules_off", "turn_modules_on"} /\ task[t].pc = "idle"
          /\ LastResp(t) \in {"ok", "d303"})
         => task[t].outcome = "returned"

\* turn_modules_off returned after the disconnect with code 303
C9_Witness ==
  \E t \in DOMAIN task :
    /\ Ended(t, "turn_modules_off") /\ task[t].resps = <<"d303">>
    /\ task[t].outcome = "returned"

\* C10: read_config and get_status do not fail at a GET that ended in the
\* disconnect with code 303.
C10_DisconnectIsEmptyPage ==
  \A t \in DOMAIN task :
    (task[t].op \in {"read_config", "get_status"} /\ task[t].pc = "idle"
       /\ LastResp(t) = "d303")
      => task[t].outcome = "returned"

\* C11: a fetch that ends in a connection fault other than the disconnect
\* with code 303 is the last fetch of its operation, and the operation
\* raises.
C11_FaultFailsOperation ==
  \A t \in DOMAIN task :
    \A i \in 1..Len(task[t].resps) :
      TransportFailure(task[t].resps[i])
        => /\ i = Len(task[t].resps)
           /\ Len(task[t].urls) = i
           /\ task[t].pc = "idle"
           /\ task[t].outcome = "raised"

\* read_config whose second fetch was cut with another code: two fetches, raised
C11_Witness ==
  \E t \in DOMAIN task :
    /\ Ended(t, "read_config")
    /\ task[t].resps = <<"ok", "d500">>
    /\ Len(task[t].urls) = 2
    /\ task[t].outcome = "raised"

T_Zero == <<"0", ".", "0">>

\* the summary page's "Firmware Version" captions are all followed by "0.0"
FwCaptionThenZero(page) ==
  /\ \E i \in 1..Len(page) : page[i] = T_FirmwareVersion
  /\ \A i \in 1..Len(page) :
       page[i] = T_FirmwareVersion => (i < Len(page) /\ page[i + 1] = T_Zero)

\* C12: when the text that follows the "Firmware Version" caption of the
\* summary page is "0.0", the snapshot get_status returns has no firmware
\* version, whatever the page holds after it.
C12_ZeroFirmwareUnset ==
  \A t \in DOMAIN task :
    (Ended(t, "get_status") /\ task[t].outcome = "returned"
       /\ FwCaptionThenZero(task[t].page1))
      => task[t].ret[1].cca.fw_version = None

\* the models and the substrings that select them, in the order model() tests them
ModelTable ==
  << [model |-> "TS4-A-M", codes |-> {<<"4", "5", "5">>}],
     [model |-> "TS4-A-O", codes |-> {<<"4", "6", "1">>, <<"4", "6", "2">>}],
     [model |-> "TS4-A-S", codes |-> {<<"4", "6", "6">>}],
     [model |-> "TS4-A-F", codes |-> {<<"4", "8", "1">>, <<"4", "8", "6">>, <<"4", "8", "8">>}],
     [model |-> "TS4-A-2F", codes |-> {<<"4", "8", "4">>, <<"4", "8", "5">>, <<"4", "8", "7">>}] >>

\* hw holds a substring of the i-th entry of the table
Selects(hw, i) == \E code \in ModelTable[i].codes : Contains(hw, code)

NumericCols == {13, 14, 15, 16, 17, 18, 21, 22}

\* text that is neither a number of the column's kind nor a placeholder
NotNumeric(col, text) ==
  \/ text \in {T_x, T_zz}
  \/ col \in {17, 22} /\ text = T_frac

\* C15: when a cell of a numeric column of the live-status page holds text
\* that is neither numeric nor "n/a", get_status raises and returns no
\* snapshot.
C15_BadNumberFailsStatus ==
  \A t \in DOMAIN task :
    (Ended(t, "get_status") /\ task[t].resps = <<"ok", "ok">>
       /\ \E i \in 1..Len(task[t].page2) : \E col \in NumericCols :
            NotNumeric(col, task[t].page2[i][col]))
      => (task[t].outcome = "raised" /\ task[t].ret = <<>>)

\* a fresh, valid row followed by a row whose pwm cell holds "1.5"
C15_Witness ==
  \E t \in DOMAIN task :
    /\ Ended(t, "get_status")
    /\ task[t].page2 = << LiveRow(T_x, T_AA, T_P1, T_fresh, T_vin),
                          LiveRowWith(LiveRow(T_x, T_AA, T_P1, T_fresh, T_vin), 17, T_frac) >>
    /\ task[t].outcome = "raised"
    /\ task[t].err = "ValueError"

\* a row the status parser reads without an exception of its own: the marker
\* cell is there and the numeric cells are numbers or placeholders
RowReadable(row) ==
  /\ row[1] \notin {<<>>, NA}
  /\ \A col \in NumericCols : ~NotNumeric(col, row[col])

\* C20: a row of the live-status page is kept if and only if its own age
\* text holds neither "hrs" nor "min", also a row whose age cell is empty or
\* "n/a" and the first row of the page: get_status returns, and the snapshot
\* holds the record of every such row (unless a later such row has its
\* label) and of no other row.
C20_OwnAgeDecides ==
  \A t \in DOMAIN task :
    (Ended(t, "get_status") /\ task[t].resps = <<"ok", "ok">>
       /\ \A i \in 1..Len(task[t].page2) : RowReadable(task[t].page2[i]))
      => /\ task[t].outcome = "returned"
         /\ \A i \in 1..Len(task[t].page2) :
              LET page == task[t].page2
                  isKept == \E k \in DOMAIN task[t].ret[1].panels :
                            task[t].ret[1].panels[k].row = i
                  hidden == \E j \in (i + 1)..Len(page) :
                              /\ ~StaleRow(page[j])
                              /\ LiveRowKey(page[j]) = LiveRowKey(page[i])
              IN /\ StaleRow(page[i]) => ~isKept
                 /\ (~StaleRow(page[i]) /\ ~hidden) => isKept

\* the innermost open table of the document fed to the parser
InTable == Len(run.open) > 0
TopTable == run.open[Len(run.open)]

\* C16: _on_td and _on_tr_end are called only for cells and rows of a table
\* with class "list_tb": when one is called, the innermost open table of the
\* document is a marked one.
C16_OnlyMarkedTables ==
  (run.last.td # <<>> \/ run.last.tr) => (InTable /\ TopTable.marked)

\* C17: between one <td> and the next _on_td is called at most once, never
\* with "n/a", and a text node of an open cell that is passed to _on_td is
\* the first text node of that cell other than "n/a".
C17_FirstTextOnce ==
  /\ run.calls <= 1
  /\ run.last.td # <<>> => run.last.ev[1].data # NA
  /\ (run.last.td # <<>> /\ InTable /\ TopTable.in_td) => run.last.first

\* C18: the text passed to _on_td lies inside a cell, between its <td> and
\* its end.
C18_TextInsideCell ==
  run.last.td # <<>> => (InTable /\ TopTable.in_td)

\* C19: the column passed to _on_td for a text inside a cell of a marked
\* table is the position of the cell among the cells of its row, and at the
\* </tr> of a row of a marked table that had a cell _on_tr_end is called,
\* the column counter is 0 and the row context is closed.
C19_ColumnIsPosition ==
  /\ (run.last.td # <<>> /\ InTable /\ TopTable.marked /\ TopTable.in_td)
       => run.last.td[1] = TopTable.cells
  /\ run.last.due => (run.last.tr /\ run.p.td_nr = 0 /\ ~run.p.in_row)

\* C14: a step of get_status, turn_modules_off or turn_modules_on leaves the
\* client's panel mapping as it is, and no step of any operation changes the
\* snapshot or the mapping that a caller got from an earlier get_status or
\* read_config.
C14_OnlyReadConfigWrites ==
  [][ /\ \A t \in DOMAIN task :
           (task'[t] # task[t] /\ task'[t].op # "read_config") => panels' = panels
      /\ task' # task =>
           (kept'.mapping = kept.mapping /\ kept'.snapshot = kept.snapshot) ]_vars

\* a caller holds a mapping with panels and a snapshot with panels, and a
\* later read_config has returned with another mapping
C14_Witness ==
  /\ kept.mapping # <<>> /\ kept.snapshot # <<>>
  /\ kept.mapping[1] # EmptyDict
  /\ kept.snapshot[1].panels # EmptyDict
  /\ \E t \in DOMAIN task :
       /\ Ended(t, "read_config") /\ task[t].outcome = "returned"
       /\ panels # kept.mapping[1]

\* the GETs of t's call that have been issued and have not ended
InFlight(t) == Len(task[t].urls) - Len(task[t].resps)

\* C21: an operation has at most one GET in flight, and read_config and
\* get_status issue the GET of their second page only when the GET of the
\* first page has ended with a page and that page has been parsed.
C21_FetchesSequential ==
  \A t \in DOMAIN task :
    /\ InFlight(t) = (IF task[t].pc = "idle" THEN 0 ELSE 1)
    /\ Len(task[t].urls) >= 2 =>
         /\ Len(task[t].urls) = 2
         /\ task[t].resps[1] = "ok"
         /\ \/ task[t].op = "read_config"
               /\ task[t].urls = <<URL_meshnodever, URL_meshnodeinfo>>
               /\ task[t].pc = "get2" =>
                    panels = TableFeed("version", PanelsVersionPageParser_init(EmptyDict),
                                       TablePageEvents(task[t].page1)).infos
            \/ task[t].op = "get_status"
               /\ task[t].urls = <<URL_lmudui, URL_meshdatapower>>
               /\ task[t].pc = "get2" =>
                    task[t].status[1].cca =
                      CcaFeed(CcaStatusPageParser_init(TigoCcaStatus_init),
                              SummaryPageEvents(task[t].page1)).cca

\* get_status waits for the live-status page, the summary page is parsed
C21_Witness ==
  \E t \in DOMAIN task :
    /\ task[t].op = "get_status" /\ task[t].pc = "get2"
    /\ task[t].urls = <<URL_lmudui, URL_meshdatapower>>
    /\ task[t].resps = <<"ok">>
    /\ task[t].status[1].cca.fw_version = <<"1", ".", "2">>

\* C22: after read_config every key of the client's mapping maps to a record
\* whose label is that key, and two different keys map to different record
\* objects.
C22_KeyIsLabelOfOwnRecord ==
  \A t \in DOMAIN task :
    (Ended(t, "read_config") /\ task[t].outcome = "returned")
      => /\ \A k \in DOMAIN panels : panels[k].label = k
         /\ \A k1, k2 \in DOMAIN panels : k1 # k2 => panels[k1].oid # panels[k2].oid

\* the snapshot get_status returns when it runs alone on these two pages
AloneSnapshot(page1, page2) ==
  [cca |-> CcaFeed(CcaStatusPageParser_init(TigoCcaStatus_init),
                   SummaryPageEvents(page1)).cca,
   panels |-> TableFeed("status", PanelsStatusPageParser_init(EmptyDict),
                        TablePageEvents(page2)).panels]

\* C23: a get_status that overlaps with another get_status or a control
\* command returns the snapshot it returns alone on the pages it fetched.
C23_OverlapReturnsOwnPages ==
  \A t \in DOMAIN task :
    (Ended(t, "get_status") /\ task[t].outcome = "returned")
      => task[t].ret[1] = AloneSnapshot(task[t].page1, task[t].page2)

\* a get_status that started while another get_status was running has
\* returned a snapshot with a panel; the other call fetched another summary
\* page and another live-status page
C23_Witness ==
  \E t, u \in DOMAIN task :
    /\ t # u /\ u \in task[t].among
    /\ Ended(t, "get_status") /\ task[t].outcome = "returned"
    /\ task[t].ret[1].panels # EmptyDict
    /\ Ended(u, "get_status") /\ task[u].outcome = "returned"
    /\ task[u].page1 # task[t].page1
    /\ task[u].page2 # task[t].page2

\* C24: a panel sensor entity reports the snapshot of the last poll: when
\* the snapshot holds the panel's label the native value is the field of
\* that record, and when it does not the native value is None and the
\* entity is unavailable.
C24_SensorReportsLatestSnapshot ==
  reported # <<>> =>
    LET r == reported[1]
    IN IF r.label \in DOMAIN r.data.panels
       THEN /\ r.native_value.err = NoErr
            /\ r.native_value.val = r.data.panels[r.label][r.field]
       ELSE /\ r.native_value = [err |-> NoErr, val |-> None]
            /\ r.available = [err |-> NoErr, val |-> FALSE]

====
